---------------------------- MODULE Spec2Model ----------------------------
(***************************************************************************)
(* Model of the Airzone MQTT <-> Home Assistant bridge                     *)
(* (package airzone_mqtt_hass): the request/response correlation client    *)
(* (Airzone.cmd_invoke / msg_response), the online state, the freshness    *)
(* policy of Airzone.update, the device store with its full / partial      *)
(* merges, the inbound queue of Mqtt and the task loops of Interface.      *)
(*                                                                         *)
(* Python values are tagged tuples <<tag, value>> so that None, booleans,  *)
(* numbers and strings can be compared with one another.  Numbers with a   *)
(* fractional part are kept in tenths.                                     *)
(***************************************************************************)
EXTENDS Integers, Sequences, FiniteSets, TLC

(***************************************************************************)
(* Bounds of the model.                                                    *)
(***************************************************************************)
MaxTime == 3        \* the clock runs over 0..MaxTime
MaxMsgs == 3        \* inbound messages delivered by the broker in one run
MaxQueue == 2       \* longest rx_list the broker is allowed to build up
MaxMerges == 2      \* partial updates applied in one run of SpecMerge
PollTimeout == 2    \* Config.poll_timeout, in clock units
ScanInterval == 1   \* Config.scan_interval, in clock units

(***************************************************************************)
(* Python values.                                                          *)
(***************************************************************************)
PyNone == <<"none">>
PyBool(b) == <<"bool", b>>
PyInt(n) == <<"int", n>>
PyFloat(t) == <<"float", t>>
PyStr(s) == <<"str", s>>
PyList(l) == <<"list", l>>
Absent == <<"absent">>      \* a key that the JSON object does not have

IsNone(v) == v[1] = "none"

\* bool(x)
BoolOf(v) ==
    CASE v[1] = "bool" -> v[2]
      [] v[1] = "int" -> v[2] # 0
      [] v[1] = "float" -> v[2] # 0
      [] v[1] = "str" -> v[2] # ""
      [] v[1] = "list" -> Len(v[2]) > 0
      [] OTHER -> FALSE

\* truncation toward zero of a number kept in tenths
Trunc10(t) == IF t >= 0 THEN t \div 10 ELSE -((-t) \div 10)

\* int(x) for the JSON scalars bool, int and float
IntOf(v) ==
    CASE v[1] = "bool" -> (IF v[2] THEN 1 ELSE 0)
      [] v[1] = "int" -> v[2]
      [] v[1] = "float" -> Trunc10(v[2])

\* float(x) for the JSON scalars bool, int and float, in tenths
FloatOf(v) ==
    CASE v[1] = "bool" -> (IF v[2] THEN 10 ELSE 0)
      [] v[1] = "int" -> v[2] * 10
      [] v[1] = "float" -> v[2]

\* str(x)
StrOf(v) ==
    CASE v[1] = "none" -> "None"
      [] v[1] = "bool" -> (IF v[2] THEN "True" ELSE "False")
      [] v[1] = "int" -> ToString(v[2])
      [] v[1] = "float" -> ToString(Trunc10(v[2])) \o "." \o ToString(v[2] % 10)
      [] v[1] = "str" -> v[2]

(***************************************************************************)
(* common.py                                                               *)
(***************************************************************************)
AZ_Mode_UNKNOWN == -1
AZ_Mode_Values == 0..18

\* AZ_Mode(value), with AZ_Mode._missing_ for the values that are no member
AZ_Mode(v) ==
    CASE v[1] = "int" /\ v[2] \in AZ_Mode_Values -> v[2]
      [] v[1] = "bool" -> (IF v[2] THEN 1 ELSE 0)
      [] v[1] = "float" /\ v[2] % 10 = 0 /\ (v[2] \div 10) \in AZ_Mode_Values
            -> v[2] \div 10
      [] OTHER -> AZ_Mode_UNKNOWN

CELSIUS == 0
FAHRENHEIT == 1

\* AZ_TemperatureUnit(value); the inputs of the model are members
AZ_TemperatureUnit(v) == IntOf(v)

(***************************************************************************)
(* Names imported from const.py.                                           *)
(***************************************************************************)
API_AZ_SYSTEM == "az_system"
API_AZ_ZONE == "az_zone"
API_AZ_GET_STATUS == <<"az", "get_status">>   \* the name, split at the dots
AMT_EVENTS == "events"
AMT_INVOKE == "invoke"
AMT_ONLINE == "online"
AMT_RESPONSE == "response"
AMT_STATUS == "status"
AMT_REQUEST == "request"
AZ_MANUFACTURER == "Airzone"
AZ_MODEL_SYSTEM == "System"
AZ_MODEL_ZONE == "Zone"
HAD_ONLINE == "online"
HAD_OFFLINE == "offline"

(***************************************************************************)
(* A device entry of a getStatus response, and the body of an              *)
(* events/status message: device_type, system_id, device_id, meta.units    *)
(* and the parameters.  An absent (or null) field is PyNone.               *)
(***************************************************************************)
ParamNames == {"is_connected", "air_active", "humidity", "mode",
               "mode_available", "name", "power", "rad_active",
               "range_max", "range_min", "setpoint", "step",
               "zone_work_temp"}

NoParams == [f \in ParamNames |-> PyNone]

Entry(type, sid, did, units, params) ==
    [device_type |-> type, system_id |-> sid, device_id |-> did,
     units |-> units, parameters |-> params]

(***************************************************************************)
(* device.py                                                               *)
(***************************************************************************)
\* Device.get_id of the identity (system_id, device_id)
GetId(system_id, device_id) == system_id \o ":" \o device_id

\* Device.__init__
Device(data) ==
    [device_id |-> StrOf(data.device_id),
     is_connected |-> FALSE,
     manufacturer |-> AZ_MANUFACTURER,
     system_id |-> StrOf(data.system_id),
     units |-> CELSIUS]

\* an id made of the device id alone
get_id_device(dev) == dev.device_id

\* Device.get_id
get_id(dev) == GetId(dev.system_id, dev.device_id)

\* a Device.update that lacks the test for an absent is_connected
DeviceUpdateNoTest(dev, data) ==
    LET p == data.parameters
        d1 == [dev EXCEPT !.is_connected = BoolOf(p.is_connected)]
    IN  IF ~IsNone(data.units)
        THEN [d1 EXCEPT !.units = AZ_TemperatureUnit(data.units)]
        ELSE d1

\* Device.update
DeviceUpdate(dev, data) ==
    LET p == data.parameters
        d1 == IF ~IsNone(p.is_connected)
              THEN [dev EXCEPT !.is_connected = BoolOf(p.is_connected)]
              ELSE dev
    IN  IF ~IsNone(data.units)
        THEN [d1 EXCEPT !.units = AZ_TemperatureUnit(data.units)]
        ELSE d1

(***************************************************************************)
(* system.py                                                               *)
(***************************************************************************)
\* System.__init__
System(data) ==
    LET dev == Device(data)
    IN  [device_id |-> dev.device_id,
         is_connected |-> dev.is_connected,
         manufacturer |-> dev.manufacturer,
         system_id |-> dev.system_id,
         units |-> dev.units,
         model |-> AZ_MODEL_SYSTEM,
         name |-> "System [" \o get_id(dev) \o "]"]

\* System.update
SystemUpdate(sys, data) == DeviceUpdate(sys, data)

(***************************************************************************)
(* zone.py                                                                 *)
(***************************************************************************)
\* Zone.__init__
Zone(data) ==
    LET dev == Device(data)
    IN  [device_id |-> dev.device_id,
         is_connected |-> dev.is_connected,
         manufacturer |-> dev.manufacturer,
         system_id |-> dev.system_id,
         units |-> dev.units,
         air_active |-> PyNone,
         humidity |-> PyNone,
         mode |-> PyNone,
         mode_available |-> << >>,
         model |-> AZ_MODEL_ZONE,
         name |-> "Zone [" \o get_id(dev) \o "]",
         power |-> PyNone,
         rad_active |-> PyNone,
         setpoint |-> PyNone,
         setpoint_max |-> PyNone,
         setpoint_min |-> PyNone,
         step |-> PyNone,
         zone_work_temp |-> PyNone]

\* the loop of Zone.update over the mode_available list: the list is
\* extended by one AZ_Mode per element, starting from acc
RECURSIVE ExtendModes(_, _)
ExtendModes(acc, l) ==
    IF l = << >> THEN acc
    ELSE ExtendModes(Append(acc, AZ_Mode(Head(l))), Tail(l))

\* a Zone.update that extends mode_available without emptying it
ModeAvailableKept(old, l) == ExtendModes(old, l)

\* what Zone.update assigns to mode_available: the list is emptied first
ModeAvailable(old, l) == ExtendModes(<< >>, l)

\* Zone.update
ZoneUpdate(zone, data) ==
    LET p == data.parameters
        z0 == DeviceUpdate(zone, data)
        Set(z, f, v, conv(_)) == IF ~IsNone(v) THEN [z EXCEPT ![f] = conv(v)]
                                 ELSE z
        BoolV(v) == PyBool(BoolOf(v))
        IntV(v) == PyInt(IntOf(v))
        FloatV(v) == PyFloat(FloatOf(v))
        ModeV(v) == <<"mode", AZ_Mode(v)>>
        z1 == Set(z0, "air_active", p.air_active, BoolV)
        z2 == Set(z1, "humidity", p.humidity, IntV)
        z3 == Set(z2, "mode", p.mode, ModeV)
        z4 == IF ~IsNone(p.mode_available)
              THEN [z3 EXCEPT !.mode_available =
                        ModeAvailable(z3.mode_available, p.mode_available[2])]
              ELSE z3
        z5 == Set(z4, "name", p.name, StrOf)
        z6 == Set(z5, "power", p.power, BoolV)
        z7 == Set(z6, "rad_active", p.rad_active, BoolV)
        z8 == Set(z7, "setpoint_max", p.range_max, FloatV)
        z9 == Set(z8, "setpoint_min", p.range_min, FloatV)
        z10 == Set(z9, "setpoint", p.setpoint, FloatV)
        z11 == Set(z10, "step", p.step, FloatV)
    IN  Set(z11, "zone_work_temp", p.zone_work_temp, FloatV)

(***************************************************************************)
(* airzone.py: helpers without state.                                      *)
(***************************************************************************)
Tasks == {"sync", "aux"}

RECURSIVE JoinWith(_, _)
JoinWith(parts, sep) ==
    IF Len(parts) = 1 THEN Head(parts)
    ELSE Head(parts) \o sep \o JoinWith(Tail(parts), sep)

\* Airzone.api_safe_str of a name given by its parts between the dots
api_safe_str(parts) == JoinWith(parts, "_")

\* Airzone.cmd_req_id at the time cur_dt
cmd_req_id(parts, cur_dt) ==
    AMT_REQUEST \o "-" \o ToString(cur_dt) \o "-" \o api_safe_str(parts)

\* truth value of a Python value
Truthy(v) == BoolOf(v)

(***************************************************************************)
(* Inbound messages: the topic below the prefix, split at "/", whether the  *)
(* payload is a JSON document, and the decoded payload (online flag,       *)
(* headers.req_id, headers.ts, body.devices of a response, body of an      *)
(* event).                                                                 *)
(***************************************************************************)
NoBody == Entry(PyNone, PyNone, PyNone, PyNone, NoParams)

Msg(topic, onl, req_id, ts, devices, body) ==
    [topic |-> topic, valid |-> TRUE, online |-> onl, req_id |-> req_id,
     ts |-> ts, devices |-> devices, body |-> body]

\* the message m with a payload that json.loads cannot decode
Undecodable(m) == [m EXCEPT !.valid = FALSE]

NoMsg == Msg(<< >>, PyNone, PyNone, PyNone, << >>, NoBody)

OnlineMsg(v) == Msg(<<AMT_ONLINE>>, v, PyNone, PyNone, << >>, NoBody)
ResponseMsg(name, req_id, ts, devices) ==
    Msg(<<AMT_RESPONSE, name>>, PyNone, req_id, ts, devices, NoBody)
EventMsg(ts, body) ==
    Msg(<<AMT_EVENTS, AMT_STATUS>>, PyNone, PyNone, ts, << >>, body)

VARIABLES
    api_init,        \* Airzone.api_init
    api_init_event,  \* Airzone.api_init_event is set
    api_lock,        \* Airzone.api_lock is locked
    lock_waiters,    \* the tasks queued in Airzone.api_lock, oldest first
    lock_owner,      \* the task whose acquisition holds api_lock, or "none"
    api_raw_data,    \* Airzone.api_raw_data[API_AZ_GET_STATUS]
    api_resp,        \* Airzone.api_resp is set
    api_req_id,      \* Airzone.api_req_id
    online,          \* Airzone.online
    online_event,    \* Airzone.online_event is set
    systems,         \* Airzone.systems
    zones,           \* Airzone.zones
    update_dt,       \* Airzone.update_dt
    cb_calls,        \* calls of Airzone.callback_function so far
    pub_tasks,       \* devices whose mqtt_update_* task is yet to run
    avail_pub,       \* last availability state published for each device
    rx_list,         \* Mqtt.rx_list
    rx_event,        \* Mqtt.rx_event is set
    mqtt_pc,         \* Interface.mqtt_task: "wait" in rx_msg_pop or "run"
    pc,              \* where each caller of Airzone.update is suspended
    woken,           \* the future a suspended task awaits is resolved
    timer,           \* deadline of the task's asyncio.timeout / asyncio.sleep
    timeouts,        \* tasks inside asyncio.timeout, in the order they entered
    result,          \* how the last update() of each task ended
    published,       \* request ids published on the invoke topic, in order
    fatal,           \* the error that ended a task of async_main, or "none"
    connected,       \* the transport is connected (Mqtt.connect / disconnect)
    exited,          \* the error async_main has raised, or "none"
    online_seen,     \* an online message with a true value was processed
    now,             \* the clock read by get_current_dt
    msgs,            \* inbound messages delivered so far
    last             \* the step taken last

az_vars == <<api_init, api_init_event, api_raw_data, api_resp, api_req_id,
             online, online_event, systems, zones, update_dt, cb_calls,
             pub_tasks, avail_pub>>
lock_vars == <<api_lock, lock_waiters, lock_owner>>
rx_vars == <<rx_list, rx_event, mqtt_pc>>
task_vars == <<pc, timer, timeouts, result>>
main_vars == <<connected, exited>>
vars == <<az_vars, lock_vars, rx_vars, task_vars, woken, published, fatal,
          main_vars, online_seen, now, msgs, last>>

Step(op, task, msg) == [op |-> op, task |-> task, msg |-> msg]

(***************************************************************************)
(* Airzone.__init__, Mqtt.__init__ and the tasks of async_main at their    *)
(* first suspension.  Only the task "sync" (Interface.airzone_task) runs   *)
(* in the program; "aux" is a second caller of Airzone.update.             *)
(***************************************************************************)
\* an airzone_task that starts its loop without waiting for online_event
airzone_task_start_unblocked == "sleep"

\* the first suspension of Interface.airzone_task: online_event.wait()
airzone_task_start == "wait_online"

InitWith(callers) ==
    /\ api_init = FALSE
    /\ api_init_event = FALSE
    /\ api_lock = FALSE
    /\ lock_waiters = << >>
    /\ lock_owner = "none"
    /\ api_raw_data = PyNone
    /\ api_resp = FALSE
    /\ api_req_id = ""
    /\ online = PyBool(FALSE)
    /\ online_event = FALSE
    /\ systems = << >>
    /\ zones = << >>
    /\ update_dt = PyNone
    /\ cb_calls = 0
    /\ pub_tasks = {}
    /\ avail_pub = << >>
    /\ rx_list = << >>
    /\ rx_event = FALSE
    /\ mqtt_pc = "wait"
    /\ pc = [t \in Tasks |->
                IF t \in callers THEN airzone_task_start ELSE "off"]
    /\ woken = [t \in Tasks |-> FALSE]
    /\ timer = [t \in Tasks |-> 0]
    /\ timeouts = << >>
    /\ result = [t \in Tasks |-> "none"]
    /\ published = << >>
    /\ fatal = "none"
    /\ connected = TRUE
    /\ exited = "none"
    /\ online_seen = FALSE
    /\ now = 0
    /\ msgs = 0
    /\ last = Step("init", "none", NoMsg)

Init == InitWith({"sync"})

InitConc == InitWith(Tasks)

(***************************************************************************)
(* The clock.  Ready work of the event loop runs before time advances.     *)
(***************************************************************************)
\* common.get_current_dt, in tenths of a clock unit
get_current_dt == now * 10

Due(t) == now >= timer[t]

\* the event loop has a step of task t to run
Ready(t) ==
    \/ pc[t] \in {"wait_online", "wait_lock", "wait_resp"} /\ woken[t]
    \/ pc[t] \in {"wait_lock", "wait_resp", "sleep"} /\ Due(t)

Running == fatal = "none" /\ mqtt_pc = "wait"

\* a task whose wake-up stands in the queue of the event loop
Woken(t) == pc[t] \in {"wait_online", "wait_lock", "wait_resp"} /\ woken[t]

\* the event loop runs the step of a task that was woken: mqtt_task is not
\* in the middle of its loop and async_main has not left.  A wake-up that is
\* queued when an error leaves another task stands ahead of the callback of
\* asyncio.gather, so its step still runs
Scheduled == exited = "none" /\ mqtt_pc # "run"

\* the first error that leaves a task is the one asyncio.gather raises
FirstError(err) == IF fatal = "none" THEN err ELSE fatal

Tick ==
    /\ Running
    /\ now < MaxTime
    /\ rx_list = << >>
    /\ pub_tasks = {}
    /\ \A t \in Tasks : ~Ready(t)
    /\ now' = now + 1
    /\ last' = Step("tick", "none", NoMsg)
    /\ UNCHANGED <<az_vars, lock_vars, rx_vars, task_vars, woken, published,
                   fatal, msgs, main_vars, online_seen>>

(***************************************************************************)
(* airzone.py: the device store.                                           *)
(***************************************************************************)
Put(store, key, dev) ==
    [k \in (DOMAIN store) \cup {key} |-> IF k = key THEN dev ELSE store[k]]

\* a store that takes every constructed device, stored key or not
KeyIsNewAlways(store, key) == TRUE

\* the tests `system_id not in self.systems` and `zone_id not in self.zones`
KeyIsNew(store, key) == key \notin DOMAIN store

\* the system branch of the loop of Airzone.api_az_get_status
StoreSystem(store, device) ==
    LET system == SystemUpdate(System(device), device)
        system_id == get_id(system)
    IN  IF KeyIsNew(store, system_id) THEN Put(store, system_id, system)
        ELSE store

\* a zone branch that constructs the zone and stores nothing
StoreZoneDropped(store, device) == store

\* the zone branch of the loop of Airzone.api_az_get_status
StoreZone(store, device) ==
    LET zone == ZoneUpdate(Zone(device), device)
        zone_id == get_id(zone)
    IN  IF KeyIsNew(store, zone_id) THEN Put(store, zone_id, zone)
        ELSE store

\* Airzone.systems after the loop of api_az_get_status over devices
RECURSIVE StatusSystems(_, _)
StatusSystems(store, devices) ==
    IF devices = << >> THEN store
    ELSE StatusSystems(
            IF Head(devices).device_type = PyStr(API_AZ_SYSTEM)
            THEN StoreSystem(store, Head(devices)) ELSE store,
            Tail(devices))

\* Airzone.zones after the loop of api_az_get_status over devices
RECURSIVE StatusZones(_, _)
StatusZones(store, devices) ==
    IF devices = << >> THEN store
    ELSE StatusZones(
            IF Head(devices).device_type = PyStr(API_AZ_ZONE)
            THEN StoreZone(store, Head(devices)) ELSE store,
            Tail(devices))

\* a lookup that ignores the system id of the message
LookupKeyAnySystem(system_id, device_id) == GetId("1", StrOf(device_id))

\* the key Airzone.get_system / Airzone.get_zone look up
LookupKey(system_id, device_id) == GetId(StrOf(system_id), StrOf(device_id))

\* Airzone.mqtt_update: one task per stored system and per stored zone
mqtt_update(syss, zns) ==
    {<<API_AZ_SYSTEM, k>> : k \in DOMAIN syss}
        \cup {<<API_AZ_ZONE, k>> : k \in DOMAIN zns}

\* the device a task of mqtt_update was created for
TaskDevice(r) == IF r[1] = API_AZ_SYSTEM THEN systems[r[2]] ELSE zones[r[2]]

\* an availability that looks at the device's own flag alone
get_dev_avail_device(device) ==
    IF device.is_connected THEN HAD_ONLINE ELSE HAD_OFFLINE

\* Airzone.get_dev_avail
get_dev_avail(device) ==
    IF Truthy(online) /\ device.is_connected THEN HAD_ONLINE ELSE HAD_OFFLINE

\* an Airzone on which set_update_callback was not called
callback_function_unset(calls) == calls

\* Airzone.update_callback awaits callback_function, which Interface.__init__
\* has set to airzone_callback: the number of calls afterwards
callback_function(calls) == calls + 1

\* Airzone.update_callback: the value assigned to update_dt
CallbackDt(data_ts) ==
    IF ~IsNone(data_ts) THEN <<"dt", FloatOf(data_ts)>>
    ELSE <<"dt", get_current_dt>>

(***************************************************************************)
(* airzone.py: the Router (msg_process and the msg_* handlers).            *)
(***************************************************************************)
WakeAll(at) == [t \in Tasks |-> IF pc[t] = at THEN TRUE ELSE woken[t]]

\* a payload without the online field read as online
data_get_online_true(m) ==
    IF m.online = Absent THEN PyBool(TRUE) ELSE m.online

\* data.get(API_ONLINE, False) in Airzone.msg_online
data_get_online(m) ==
    IF m.online = Absent THEN PyBool(FALSE) ELSE m.online

\* Airzone.msg_online
MsgOnline(m) ==
    /\ online' = data_get_online(m)
    /\ online_event' = Truthy(online')
    /\ woken' = IF Truthy(online') THEN WakeAll("wait_online") ELSE woken
    /\ UNCHANGED <<api_init, api_init_event, api_raw_data, api_resp,
                   api_req_id, systems, zones, update_dt, cb_calls,
                   pub_tasks, avail_pub>>

\* a response matcher that takes any correlation id for the pending one
ReqIdMatchesAny(req_id) == TRUE

\* the test of Airzone.msg_response on the correlation id
ReqIdMatches(req_id) == req_id = PyStr(api_req_id)

\* a response handler that takes every response for a getStatus response
IsAnyResponse(topic) == TRUE

\* the test of Airzone.msg_response on the topic below "response"
IsGetStatus(topic) == topic[2] = api_safe_str(API_AZ_GET_STATUS)

\* an Event.set that sets the flag and wakes no waiter
api_resp_set_lost == woken

\* api_resp.set() in Airzone.msg_response: asyncio.Event.set resolves the
\* future of every task waiting in api_resp.wait()
api_resp_set == WakeAll("wait_resp")

\* Airzone.msg_response, with api_az_get_status and update_callback({})
MsgResponse(m) ==
    /\ api_resp' = IF ReqIdMatches(m.req_id) THEN TRUE ELSE api_resp
    /\ woken' = IF ReqIdMatches(m.req_id) THEN api_resp_set ELSE woken
    /\ IF IsGetStatus(m.topic)
       THEN /\ api_raw_data' = <<"data", [req_id |-> m.req_id, ts |-> m.ts,
                                          devices |-> m.devices]>>
            /\ systems' = StatusSystems(systems, m.devices)
            /\ zones' = StatusZones(zones, m.devices)
            /\ api_init' = TRUE
            /\ api_init_event' = (IF ~api_init THEN TRUE ELSE api_init_event)
            /\ update_dt' = CallbackDt(PyNone)
            /\ cb_calls' = callback_function(cb_calls)
            /\ pub_tasks' = pub_tasks \cup mqtt_update(systems', zones')
       ELSE UNCHANGED <<api_raw_data, systems, zones, api_init,
                        api_init_event, update_dt, cb_calls, pub_tasks>>
    /\ UNCHANGED <<api_req_id, online, online_event, avail_pub>>

\* Airzone.msg_events and Airzone.msg_events_status
MsgEvents(m) ==
    LET body == m.body
        key == LookupKey(body.system_id, body.device_id)
        isSystem == /\ m.topic[2] = AMT_STATUS
                    /\ body.device_type = PyStr(API_AZ_SYSTEM)
                    /\ key \in DOMAIN systems
        isZone == /\ m.topic[2] = AMT_STATUS
                  /\ body.device_type = PyStr(API_AZ_ZONE)
                  /\ key \in DOMAIN zones
    IN  /\ systems' = IF isSystem
                      THEN [systems EXCEPT ![key] = SystemUpdate(@, body)]
                      ELSE systems
        /\ zones' = IF isZone
                    THEN [zones EXCEPT ![key] = ZoneUpdate(@, body)]
                    ELSE zones
        /\ IF isSystem \/ isZone
           THEN /\ update_dt' = CallbackDt(m.ts)
                /\ cb_calls' = callback_function(cb_calls)
                /\ pub_tasks' = pub_tasks \cup mqtt_update(systems', zones')
           ELSE UNCHANGED <<update_dt, cb_calls, pub_tasks>>
        /\ UNCHANGED <<api_init, api_init_event, api_raw_data, api_resp,
                       api_req_id, online, online_event, woken, avail_pub>>

\* Airzone.msg_invoke and Airzone.msg_unknown: the message is logged
MsgLogged(m) == UNCHANGED <<az_vars, woken>>

\* Airzone.msg_process
msg_process(m) ==
    CASE m.topic[1] = AMT_EVENTS -> MsgEvents(m)
      [] m.topic[1] = AMT_INVOKE -> MsgLogged(m)
      [] m.topic[1] = AMT_ONLINE -> MsgOnline(m)
      [] m.topic[1] = AMT_RESPONSE -> MsgResponse(m)
      [] OTHER -> MsgLogged(m)

(***************************************************************************)
(* mqtt.py and Interface.mqtt_task.                                        *)
(***************************************************************************)
\* Mqtt.rx_msg_push of the message m
rx_msg_push(m) ==
    /\ Running
    /\ rx_list' = Append(rx_list, m)
    /\ rx_event' = TRUE
    /\ last' = Step("push", "none", m)
    /\ UNCHANGED <<az_vars, lock_vars, mqtt_pc, task_vars, woken, published,
                   fatal, now, main_vars, online_seen>>

\* a pop that takes the newest message of the list
rx_msg_pop_last(list) == list[Len(list)]

\* Mqtt.rx_msg_pop: the message that rx_list.pop(0) returns
rx_msg_pop(list) == Head(list)

\* Mqtt.rx_msg_pop: rx_list after rx_list.pop(0)
rx_msg_rest(list) == Tail(list)

\* a router whose every handler decodes the payload
DecodesAll(m) == TRUE

\* the handlers that call json.loads on the payload: msg_online,
\* msg_response and msg_events_status
Decodes(m) ==
    \/ m.topic[1] \in {AMT_ONLINE, AMT_RESPONSE}
    \/ m.topic[1] = AMT_EVENTS /\ m.topic[2] = AMT_STATUS

\* one turn of the loop of Interface.mqtt_task: Mqtt.rx_msg_pop and
\* Airzone.msg_process.  The task goes on without suspending while rx_event
\* is set, so nothing else runs until rx_list is empty; a turn that follows
\* a suspension runs after the publish tasks created before it.  The error
\* of json.loads is caught nowhere: it leaves msg_process and ends the task.
MqttTask ==
    /\ exited = "none"
    /\ mqtt_pc # "dead"
    /\ rx_event
    /\ rx_list # << >>
    /\ mqtt_pc = "wait" => pub_tasks = {}
    /\ LET m == rx_msg_pop(rx_list)
       IN  /\ rx_list' = rx_msg_rest(rx_list)
           /\ rx_event' = (rx_list' # << >>)
           /\ last' = Step("msg", "mqtt", m)
           /\ IF Decodes(m) /\ ~m.valid
              THEN /\ fatal' = FirstError("JSONDecodeError")
                   /\ mqtt_pc' = "dead"
                   /\ UNCHANGED <<az_vars, woken, online_seen>>
              ELSE /\ msg_process(m)
                   /\ mqtt_pc' = IF rx_list' # << >> THEN "run" ELSE "wait"
                   /\ online_seen' = (online_seen
                                        \/ (m.topic[1] = AMT_ONLINE
                                              /\ m.online = PyBool(TRUE)))
                   /\ UNCHANGED fatal
    /\ UNCHANGED <<lock_vars, task_vars, published, now, msgs, main_vars>>

\* the tasks created by Airzone.mqtt_update run: mqtt_update_system and
\* mqtt_update_zone publish the state and then the availability of their
\* device.  The tasks never suspend and stand one behind the other in the
\* queue of the event loop, ahead of the next wake-up of mqtt_task, so they
\* all read the same online flag and devices; two tasks for one device
\* publish the same payloads.
MqttUpdateTasks ==
    /\ Scheduled
    /\ pub_tasks # {}
    /\ avail_pub' = [r \in (DOMAIN avail_pub) \cup pub_tasks |->
                        IF r \in pub_tasks THEN get_dev_avail(TaskDevice(r))
                        ELSE avail_pub[r]]
    /\ pub_tasks' = {}
    /\ last' = Step("publish", "pub", NoMsg)
    /\ UNCHANGED <<api_init, api_init_event, api_raw_data, api_resp,
                   api_req_id, online, online_event, systems, zones,
                   update_dt, cb_calls, lock_vars, rx_vars, task_vars, woken,
                   published, fatal, now, msgs, main_vars, online_seen>>

(***************************************************************************)
(* asyncio.Lock, as Airzone.api_lock uses it.                              *)
(***************************************************************************)
\* Lock._wake_up_first: the future of the oldest waiter is resolved
WakeFirst(waiters, wk) ==
    IF waiters = << >> THEN wk ELSE [wk EXCEPT ![Head(waiters)] = TRUE]

Without(seq, t) == SelectSeq(seq, LAMBDA u : u # t)

\* a lock without any owner check, as if cmd_invoke had no exclusive section
LockFreeUnguarded == TRUE

\* Lock.acquire takes the lock at once: it is free and nobody queues for it
LockFree == ~api_lock /\ lock_waiters = << >>

\* an exit of `async with api_lock` that leaves the lock with the task
lock_release_kept(t) == t

\* Lock.release at the exit of `async with api_lock` in cmd_invoke: the
\* owner of the lock afterwards
lock_release(t) == "none"

\* the task t may be cancelled by its asyncio.timeout: the deadline has
\* passed and no timeout entered earlier is still pending
TimeoutFires(t) == Due(t) /\ timeouts # << >> /\ Head(timeouts) = t

(***************************************************************************)
(* airzone.py: update, _update_events, _update_polling, cmd_invoke.        *)
(***************************************************************************)
\* a freshness test that takes the boundary age for stale
update_events_strict ==
    /\ api_init
    /\ Truthy(online)
    /\ ~IsNone(update_dt)
    /\ (get_current_dt - update_dt[2]) < PollTimeout * 10

\* Airzone._update_events
update_events ==
    /\ api_init
    /\ Truthy(online)
    /\ ~IsNone(update_dt)
    /\ (get_current_dt - update_dt[2]) <= PollTimeout * 10

\* _update_polling without its test of the online flag
polling_offline_skipped == FALSE

\* the first test of Airzone._update_polling
polling_offline == ~Truthy(online)

\* the error raised by the except clause of Airzone._update_polling, which
\* calls api_lock.release() and then raises AirzoneTimeout
PollingExcept(locked) ==
    IF locked THEN "AirzoneTimeout" ELSE "RuntimeError"

\* a _update_polling that does not test api_init after the request
polling_result_unchecked == "ok"

\* the end of Airzone._update_polling once cmd_az_get_status has returned
polling_result == IF api_init THEN "ok" ELSE "AirzonePollError"

\* a cmd_invoke that leaves the response event as it finds it
api_resp_clear_kept == api_resp

\* api_resp.clear() in Airzone.cmd_invoke: the flag of the event afterwards
api_resp_clear == FALSE

\* the body of cmd_invoke once api_lock is acquired, up to api_resp.wait();
\* Event.wait returns at once if the flag is set
InvokeLocked(t) ==
    /\ api_lock' = TRUE
    /\ lock_owner' = t
    /\ api_resp' = api_resp_clear
    /\ api_req_id' = cmd_req_id(API_AZ_GET_STATUS, now)
    /\ published' = Append(published, api_req_id')
    /\ pc' = [pc EXCEPT ![t] = "wait_resp"]
    /\ woken' = [woken EXCEPT ![t] = api_resp']

\* the end of a cycle of Interface.airzone_task: the error, if any, is
\* logged and the task sleeps for the scan interval
EndCycle(t, outcome) ==
    /\ result' = [result EXCEPT ![t] = outcome]
    /\ pc' = [pc EXCEPT ![t] = "sleep"]
    /\ timer' = [timer EXCEPT ![t] = now + ScanInterval]

\* an error that is no AirzoneError leaves Interface.airzone_task and
\* asyncio.gather; no timer fires before async_main's except clause
Crash(t, err) ==
    /\ result' = [result EXCEPT ![t] = err]
    /\ pc' = [pc EXCEPT ![t] = "dead"]
    /\ fatal' = FirstError(err)

\* Interface.airzone_task runs Airzone.update: after online_event.wait()
\* and after each asyncio.sleep
AirzoneTaskUpdate(t) ==
    /\ \/ Scheduled /\ pc[t] = "wait_online" /\ woken[t]
       \/ Running /\ pc[t] = "sleep" /\ Due(t)
    /\ last' = Step("update", t, NoMsg)
    /\ IF update_events
       THEN /\ EndCycle(t, "noop")
            /\ woken' = [woken EXCEPT ![t] = FALSE]
            /\ UNCHANGED <<lock_vars, api_resp, api_req_id, published,
                           timeouts>>
       ELSE IF polling_offline
       THEN /\ EndCycle(t, "AirzoneOffline")
            /\ woken' = [woken EXCEPT ![t] = FALSE]
            /\ UNCHANGED <<lock_vars, api_resp, api_req_id, published,
                           timeouts>>
       ELSE /\ timeouts' = Append(timeouts, t)
            /\ timer' = [timer EXCEPT ![t] = now + PollTimeout]
            /\ result' = [result EXCEPT ![t] = "polling"]
            /\ IF LockFree
               THEN /\ InvokeLocked(t)
                    /\ UNCHANGED lock_waiters
               ELSE /\ lock_waiters' = Append(lock_waiters, t)
                    /\ pc' = [pc EXCEPT ![t] = "wait_lock"]
                    /\ woken' = [woken EXCEPT ![t] = FALSE]
                    /\ UNCHANGED <<api_lock, lock_owner, api_resp,
                                   api_req_id, published>>
    /\ UNCHANGED <<api_init, api_init_event, api_raw_data, online,
                   online_event, systems, zones, update_dt, cb_calls,
                   pub_tasks, avail_pub, rx_vars, fatal, now, msgs,
                   main_vars, online_seen>>

\* cmd_invoke resumes in Lock.acquire: the lock was handed to the task
CmdInvokeLocked(t) ==
    /\ Scheduled
    /\ pc[t] = "wait_lock" /\ woken[t]
    /\ lock_waiters' = Without(lock_waiters, t)
    /\ InvokeLocked(t)
    /\ last' = Step("locked", t, NoMsg)
    /\ UNCHANGED <<api_init, api_init_event, api_raw_data, online,
                   online_event, systems, zones, update_dt, cb_calls,
                   pub_tasks, avail_pub, rx_vars, timer, timeouts, result,
                   fatal, now, msgs, main_vars, online_seen>>

\* cmd_invoke resumes from api_resp.wait(): the lock is released, the
\* timeout is left and _update_polling tests api_init
CmdInvokeReturn(t) ==
    /\ Scheduled
    /\ pc[t] = "wait_resp" /\ woken[t]
    /\ last' = Step("return", t, NoMsg)
    /\ timeouts' = Without(timeouts, t)
    /\ IF api_lock
       THEN /\ lock_owner' = lock_release(t)
            /\ api_lock' = (lock_owner' # "none")
            /\ EndCycle(t, polling_result)
            /\ woken' = WakeFirst(lock_waiters,
                                  [woken EXCEPT ![t] = FALSE])
            /\ UNCHANGED fatal
       ELSE /\ Crash(t, "RuntimeError")
            /\ UNCHANGED <<api_lock, lock_owner, timer, woken>>
    /\ UNCHANGED <<az_vars, lock_waiters, rx_vars, published, now, msgs,
                   main_vars, online_seen>>

\* the asyncio.timeout of _update_polling cancels the task while it waits
\* in api_resp.wait(): the lock is released on the way out of cmd_invoke,
\* then the except clause of _update_polling runs
PollTimeoutResp(t) ==
    /\ Running
    /\ pc[t] = "wait_resp" /\ TimeoutFires(t)
    /\ last' = Step("timeout", t, NoMsg)
    /\ timeouts' = Without(timeouts, t)
    /\ IF api_lock
       THEN /\ lock_owner' = lock_release(t)
            /\ api_lock' = (lock_owner' # "none")
            /\ LET err == PollingExcept(api_lock')
               IN  IF err = "AirzoneTimeout"
                   THEN /\ EndCycle(t, err) /\ UNCHANGED fatal
                   ELSE /\ Crash(t, err) /\ UNCHANGED timer
            /\ woken' = WakeFirst(lock_waiters,
                                  [woken EXCEPT ![t] = FALSE])
       ELSE /\ Crash(t, "RuntimeError")
            /\ UNCHANGED <<api_lock, lock_owner, timer, woken>>
    /\ UNCHANGED <<az_vars, lock_waiters, rx_vars, published, now, msgs,
                   main_vars, online_seen>>

\* the asyncio.timeout of _update_polling cancels the task while it waits
\* in Lock.acquire, then the except clause of _update_polling runs
PollTimeoutLock(t) ==
    /\ Running
    /\ pc[t] = "wait_lock" /\ TimeoutFires(t)
    /\ last' = Step("timeout", t, NoMsg)
    /\ timeouts' = Without(timeouts, t)
    /\ lock_waiters' = Without(lock_waiters, t)
    /\ LET err == PollingExcept(api_lock)
           wk0 == [woken EXCEPT ![t] = FALSE]
       IN  IF err = "AirzoneTimeout"
           THEN /\ api_lock' = FALSE
                /\ lock_owner' = "none"
                /\ EndCycle(t, err)
                /\ woken' = WakeFirst(lock_waiters', wk0)
                /\ UNCHANGED fatal
           ELSE /\ Crash(t, err)
                /\ woken' = WakeFirst(lock_waiters', wk0)
                /\ UNCHANGED <<api_lock, lock_owner, timer>>
    /\ UNCHANGED <<az_vars, rx_vars, published, now, msgs, main_vars,
                   online_seen>>

\* an except clause that raises without stopping the interface
interface_stop_skipped == connected

\* Interface.stop: the state of the transport after Mqtt.disconnect
interface_stop == FALSE

\* the except clause of async_main: the error of a task leaves
\* asyncio.gather, the interface is stopped and the error is raised again.
\* The steps queued ahead of the callback of asyncio.gather have run
AsyncMainExcept ==
    /\ fatal # "none"
    /\ exited = "none"
    /\ mqtt_pc # "run"
    /\ mqtt_pc = "wait" => rx_list = << >>
    /\ pub_tasks = {}
    /\ \A t \in Tasks : ~Woken(t)
    /\ connected' = interface_stop
    /\ exited' = fatal
    /\ last' = Step("exit", "main", NoMsg)
    /\ UNCHANGED <<az_vars, lock_vars, rx_vars, task_vars, woken, published,
                   fatal, now, msgs, online_seen>>

(***************************************************************************)
(* The messages the broker delivers.                                       *)
(***************************************************************************)
SystemEntry1 ==
    Entry(PyStr(API_AZ_SYSTEM), PyStr("1"), PyStr("1"), PyInt(CELSIUS),
          [NoParams EXCEPT !.is_connected = PyBool(TRUE)])

ZoneEntry1 ==
    Entry(PyStr(API_AZ_ZONE), PyStr("1"), PyStr("2"), PyNone,
          [NoParams EXCEPT !.is_connected = PyBool(TRUE),
                           !.power = PyBool(FALSE),
                           !.setpoint = PyFloat(215),
                           !.mode = PyInt(3),
                           !.mode_available = PyList(<<PyInt(2), PyInt(3)>>)])

ZoneEntry1b ==
    Entry(PyStr(API_AZ_ZONE), PyInt(1), PyInt(2), PyInt(FAHRENHEIT),
          [NoParams EXCEPT !.power = PyInt(1),
                           !.setpoint = PyInt(23)])

OtherEntry ==
    Entry(PyStr("az_other"), PyStr("1"), PyStr("3"), PyNone, NoParams)

\* a zone entry with the identity of the system entry
ZoneEntrySys ==
    Entry(PyStr(API_AZ_ZONE), PyStr("1"), PyStr("1"), PyNone,
          [NoParams EXCEPT !.is_connected = PyBool(FALSE)])

SnapshotA == <<SystemEntry1, ZoneEntry1>>
SnapshotB == <<ZoneEntry1b, OtherEntry, ZoneEntrySys>>

ZonePowerBody ==
    Entry(PyStr(API_AZ_ZONE), PyStr("1"), PyStr("2"), PyNone,
          [NoParams EXCEPT !.power = PyBool(TRUE)])

SystemBody ==
    Entry(PyStr(API_AZ_SYSTEM), PyInt(1), PyInt(1), PyNone,
          [NoParams EXCEPT !.is_connected = PyInt(0)])

UnknownZoneBody ==
    Entry(PyStr(API_AZ_ZONE), PyStr("2"), PyStr("2"), PyNone,
          [NoParams EXCEPT !.power = PyBool(TRUE)])

OnlineMsgs == {OnlineMsg(v) : v \in {PyBool(TRUE), PyBool(FALSE), Absent}}

\* the correlation ids a response may carry: those of the requests
\* published so far, and one that was never requested
ResponseIds ==
    {PyStr(published[i]) : i \in 1..Len(published)} \cup {PyStr("other")}

ResponseMsgs ==
    {ResponseMsg(api_safe_str(API_AZ_GET_STATUS), id, PyNone, SnapshotA) :
        id \in ResponseIds}
    \cup {ResponseMsg(api_safe_str(API_AZ_GET_STATUS), id, PyInt(0), SnapshotB) :
        id \in ResponseIds}
    \cup {ResponseMsg("other", id, PyNone, << >>) : id \in ResponseIds}

EventMsgs ==
    {EventMsg(PyNone, ZonePowerBody), EventMsg(PyInt(0), SystemBody),
     EventMsg(PyNone, UnknownZoneBody), EventMsg(PyNone, OtherEntry)}

LoggedMsgs ==
    {Msg(<<AMT_INVOKE>>, PyNone, PyNone, PyNone, << >>, NoBody),
     Msg(<<"unknown">>, PyNone, PyNone, PyNone, << >>, NoBody)}

\* messages whose payload is no JSON document, one for each handler that
\* decodes and one for a handler that does not
UndecodableMsgs ==
    {Undecodable(OnlineMsg(PyNone)),
     Undecodable(ResponseMsg(api_safe_str(API_AZ_GET_STATUS), PyNone, PyNone,
                             << >>)),
     Undecodable(EventMsg(PyNone, NoBody)),
     Undecodable(Msg(<<AMT_INVOKE>>, PyNone, PyNone, PyNone, << >>, NoBody))}

Inbound ==
    OnlineMsgs \cup ResponseMsgs \cup EventMsgs \cup LoggedMsgs
        \cup UndecodableMsgs

\* the broker delivers a message: Mqtt.on_message schedules rx_msg_push
RxMsgPush ==
    /\ msgs < MaxMsgs
    /\ Len(rx_list) < MaxQueue
    /\ msgs' = msgs + 1
    /\ \E m \in Inbound : rx_msg_push(m)

(***************************************************************************)
(* The program, with Interface.airzone_task as the only caller of          *)
(* Airzone.update.                                                         *)
(***************************************************************************)
Next ==
    \/ Tick
    \/ RxMsgPush
    \/ MqttTask
    \/ MqttUpdateTasks
    \/ AsyncMainExcept
    \/ \E t \in Tasks : AirzoneTaskUpdate(t)
    \/ \E t \in Tasks : CmdInvokeReturn(t)
    \/ \E t \in Tasks : PollTimeoutResp(t)

Spec == Init /\ [][Next]_vars

(***************************************************************************)
(* The request and its response: the broker delivers the online message,   *)
(* getStatus responses and a payload that is no JSON document.             *)
(***************************************************************************)
LiveInbound ==
    {OnlineMsg(PyBool(TRUE)), Undecodable(OnlineMsg(PyNone))}
    \cup {ResponseMsg(api_safe_str(API_AZ_GET_STATUS), id, PyNone, SnapshotA) :
            id \in ResponseIds}

\* the broker delivers a message: Mqtt.on_message schedules rx_msg_push
RxLivePush ==
    /\ msgs < MaxMsgs
    /\ Len(rx_list) < MaxQueue
    /\ msgs' = msgs + 1
    /\ \E m \in LiveInbound : rx_msg_push(m)

NextLive ==
    \/ Tick
    \/ RxLivePush
    \/ MqttTask
    \/ MqttUpdateTasks
    \/ AsyncMainExcept
    \/ \E t \in Tasks : AirzoneTaskUpdate(t)
    \/ \E t \in Tasks : CmdInvokeReturn(t)
    \/ \E t \in Tasks : PollTimeoutResp(t)

\* The event loop is fair to the tasks it has woken: mqtt_task runs when
\* rx_event is set, and cmd_invoke resumes once the future of
\* api_resp.wait() is resolved.
SpecLive ==
    /\ Init
    /\ [][NextLive]_vars
    /\ WF_vars(MqttTask)
    /\ \A t \in Tasks : WF_vars(CmdInvokeReturn(t))

(***************************************************************************)
(* Two concurrent callers of Airzone.update.                               *)
(***************************************************************************)
NextConc ==
    \/ Next
    \/ \E t \in Tasks : CmdInvokeLocked(t)
    \/ \E t \in Tasks : PollTimeoutLock(t)

SpecConc == InitConc /\ [][NextConc]_vars

(***************************************************************************)
(* Partial updates alone: the store holds the devices of a first snapshot  *)
(* and the broker delivers events/status messages.                         *)
(***************************************************************************)
ZoneEntry2 ==
    Entry(PyStr(API_AZ_ZONE), PyStr("1"), PyStr("3"), PyInt(FAHRENHEIT),
          [f \in ParamNames |->
              CASE f = "is_connected" -> PyBool(TRUE)
                [] f = "air_active" -> PyBool(FALSE)
                [] f = "humidity" -> PyInt(40)
                [] f = "mode" -> PyInt(3)
                [] f = "mode_available" -> PyList(<<PyInt(2), PyInt(3)>>)
                [] f = "name" -> PyStr("Kitchen")
                [] f = "power" -> PyBool(FALSE)
                [] f = "rad_active" -> PyBool(TRUE)
                [] f = "range_max" -> PyInt(30)
                [] f = "range_min" -> PyInt(15)
                [] f = "setpoint" -> PyFloat(215)
                [] f = "step" -> PyFloat(5)
                [] f = "zone_work_temp" -> PyFloat(203)])

MergeSnapshots ==
    {<<SystemEntry1, ZoneEntry1, ZoneEntry2>>,
     <<SystemEntry1, ZoneEntry2,
       Entry(PyStr(API_AZ_ZONE), PyStr("1"), PyStr("2"), PyNone, NoParams)>>}

\* the values a field of a delta takes
ParamValues(f) ==
    CASE f \in {"is_connected", "air_active", "rad_active"}
            -> {PyBool(TRUE), PyInt(0)}
      [] f = "power" -> {PyBool(TRUE), PyBool(FALSE)}
      [] f = "humidity" -> {PyInt(45), PyFloat(507)}
      [] f = "mode" -> {PyInt(2), PyInt(99)}
      [] f = "mode_available"
            -> {PyList(<<PyInt(1), PyInt(2)>>), PyList(<<PyStr("x")>>)}
      [] f = "name" -> {PyStr("Salon"), PyInt(7)}
      [] f = "range_max" -> {PyInt(29), PyFloat(295)}
      [] f = "range_min" -> {PyInt(16), PyFloat(160)}
      [] f = "setpoint" -> {PyFloat(225), PyInt(22)}
      [] f = "step" -> {PyBool(TRUE), PyInt(1)}
      [] f = "zone_work_temp" -> {PyFloat(231), PyInt(24)}

\* deltas for the zone 1:2: one field, the units alone, nothing at all, and
\* two deltas with several fields
MergeDeltas ==
    {Entry(PyStr(API_AZ_ZONE), PyStr("1"), PyInt(2), PyNone,
           [NoParams EXCEPT ![f] = v]) :
        <<f, v>> \in UNION {{<<g, w>> : w \in ParamValues(g)} : g \in ParamNames}}
    \cup {Entry(PyStr(API_AZ_ZONE), PyStr("1"), PyInt(2), u, NoParams) :
            u \in {PyInt(CELSIUS), PyInt(FAHRENHEIT), PyNone}}
    \cup {Entry(PyStr(API_AZ_ZONE), PyStr("1"), PyInt(2), PyNone,
                [NoParams EXCEPT !.power = PyBool(TRUE),
                                 !.setpoint = PyInt(20),
                                 !.mode_available = PyList(<<PyInt(3)>>)]),
          Entry(PyStr(API_AZ_ZONE), PyStr("1"), PyStr("3"), PyInt(CELSIUS),
                [NoParams EXCEPT !.humidity = PyInt(60),
                                 !.mode_available = PyList(<< >>)])}
    \cup {Entry(PyStr(API_AZ_SYSTEM), PyStr("1"), PyStr("1"), u,
                [NoParams EXCEPT !.is_connected = c]) :
            u \in {PyNone, PyInt(FAHRENHEIT)}, c \in {PyNone, PyInt(0)}}

MergeMsgs == {EventMsg(PyNone, body) : body \in MergeDeltas}

\* the state once the first poll of Interface.airzone_task has succeeded
InitMerge ==
    \E snapshot \in MergeSnapshots :
        /\ api_init = TRUE
        /\ api_init_event = TRUE
        /\ api_lock = FALSE
        /\ lock_waiters = << >>
        /\ lock_owner = "none"
        /\ api_req_id = cmd_req_id(API_AZ_GET_STATUS, 0)
        /\ api_raw_data = <<"data", [req_id |-> PyStr(api_req_id),
                                     ts |-> PyNone, devices |-> snapshot]>>
        /\ api_resp = TRUE
        /\ online = PyBool(TRUE)
        /\ online_event = TRUE
        /\ systems = StatusSystems(<< >>, snapshot)
        /\ zones = StatusZones(<< >>, snapshot)
        /\ update_dt = <<"dt", 0>>
        /\ cb_calls = 1
        /\ pub_tasks = {}
        /\ avail_pub = [r \in mqtt_update(systems, zones) |->
                            get_dev_avail(TaskDevice(r))]
        /\ rx_list = << >>
        /\ rx_event = FALSE
        /\ mqtt_pc = "wait"
        /\ pc = [t \in Tasks |-> IF t = "sync" THEN "sleep" ELSE "off"]
        /\ woken = [t \in Tasks |-> FALSE]
        /\ timer = [t \in Tasks |-> IF t = "sync" THEN ScanInterval ELSE 0]
        /\ timeouts = << >>
        /\ result = [t \in Tasks |-> IF t = "sync" THEN "ok" ELSE "none"]
        /\ published = <<api_req_id>>
        /\ fatal = "none"
        /\ connected = TRUE
        /\ exited = "none"
        /\ online_seen = TRUE
        /\ now = 0
        /\ msgs = 0
        /\ last = Step("return", "sync", NoMsg)

\* the broker delivers an events/status message
RxMergePush ==
    /\ msgs < MaxMerges
    /\ Len(rx_list) < MaxQueue
    /\ msgs' = msgs + 1
    /\ \E m \in MergeMsgs : rx_msg_push(m)

NextMerge ==
    \/ RxMergePush
    \/ MqttTask
    \/ MqttUpdateTasks

SpecMerge == InitMerge /\ [][NextMerge]_vars

TypeOK ==
    /\ api_init \in BOOLEAN
    /\ now \in 0..MaxTime
    /\ msgs \in 0..MaxMsgs
    /\ Len(rx_list) <= MaxQueue
    /\ \A t \in Tasks : pc[t] \in {"off", "wait_online", "wait_lock",
                                    "wait_resp", "sleep", "dead"}

(***************************************************************************)
(* Properties.                                                             *)
(***************************************************************************)
\* the step taken is Airzone.msg_process of a message on a response topic
ResponseStep == last'.op = "msg" /\ last'.msg.topic[1] = AMT_RESPONSE

\* ... whose correlation id is not the pending one
MismatchStep == ResponseStep /\ last'.msg.req_id # PyStr(api_req_id)

\* the step taken is a call of Airzone.update by the task t
UpdateStep(t) == last'.op = "update" /\ last'.task = t

InFlight == {t \in Tasks : pc[t] = "wait_resp"}

\* C1: at most one request is outstanding: at most one cmd_invoke waits for
\* its response, and while one does, no step publishes a request or changes
\* the pending correlation id api_req_id.
C1_OneOutstanding ==
    [][/\ Cardinality(InFlight') <= 1
       /\ (\E t \in Tasks : pc[t] = "wait_resp" /\ pc'[t] = "wait_resp")
            => (published' = published /\ api_req_id' = api_req_id)]_vars

\* a second cmd_invoke is blocked behind the one that waits for its response
C1_Witness ==
    /\ pc["sync"] = "wait_resp"
    /\ pc["aux"] = "wait_lock"
    /\ Len(published) = 1

\* C2: processing a response whose correlation id differs from the pending
\* one does not set api_resp, does not change api_req_id and wakes no
\* waiting cmd_invoke.
C2_MismatchKeepsWaiter ==
    [][MismatchStep =>
        /\ api_resp' = api_resp
        /\ api_req_id' = api_req_id
        /\ woken' = woken
        /\ pc' = pc]_vars

\* a mismatched response was processed while a cmd_invoke waits, still blocked
C2_Witness ==
    /\ last.op = "msg"
    /\ last.msg.topic[1] = AMT_RESPONSE
    /\ last.msg.req_id # PyStr(api_req_id)
    /\ pc["sync"] = "wait_resp"
    /\ ~woken["sync"]
    /\ ~api_resp

\* C3: a response whose correlation id does not match the pending one is
\* discarded: the device store, api_init, update_dt and the raw-data cache
\* stay as they are and the publish callback is not called.
C3_MismatchDiscarded ==
    [][MismatchStep =>
        /\ systems' = systems
        /\ zones' = zones
        /\ api_init' = api_init
        /\ update_dt' = update_dt
        /\ api_raw_data' = api_raw_data
        /\ cb_calls' = cb_calls]_vars

\* C4: a poll that gets no matching response within poll_timeout ends with
\* AirzoneTimeout and no other error, and leaves the lock free for the
\* next invoke.
C4_TimeoutError ==
    last.op = "timeout" =>
        /\ result[last.task] = "AirzoneTimeout"
        /\ fatal = "none"
        /\ ~api_lock

\* C5: no outcome of a cycle ends the loop of Interface.airzone_task: the
\* task is never dead, and after a failed cycle it sleeps until the next.
C5_LoopNeverEnds ==
    /\ pc["sync"] # "dead"
    /\ result["sync"] \in {"AirzoneOffline", "AirzoneTimeout",
                           "AirzonePollError"} => pc["sync"] = "sleep"

\* C6: update() publishes nothing when the store is initialized, the
\* gateway is online and the age of update_dt is at most poll_timeout; in
\* every other state with online true it publishes one getStatus request.
C6_FreshnessPolicy ==
    [][UpdateStep("sync") =>
        IF /\ api_init
           /\ Truthy(online)
           /\ now * 10 - update_dt[2] <= PollTimeout * 10
        THEN published' = published /\ result'["sync"] = "noop"
        ELSE Truthy(online) =>
                /\ Len(published') = Len(published) + 1
                /\ published'[Len(published')] =
                        cmd_req_id(API_AZ_GET_STATUS, now)
                /\ SubSeq(published', 1, Len(published)) = published]_vars

\* update() has polled an initialized, online store whose update_dt is older
\* than poll_timeout
C6_Witness ==
    /\ last.op = "update"
    /\ api_init
    /\ Truthy(online)
    /\ now * 10 - update_dt[2] > PollTimeout * 10
    /\ pc["sync"] = "wait_resp"
    /\ published[Len(published)] = cmd_req_id(API_AZ_GET_STATUS, now)

\* C7: update() while the online flag is false ends with AirzoneOffline,
\* publishes nothing, does not acquire api_lock and leaves api_req_id.
C7_OfflineContract ==
    [][(UpdateStep("sync") /\ ~Truthy(online)) =>
        /\ result'["sync"] = "AirzoneOffline"
        /\ published' = published
        /\ api_lock' = api_lock
        /\ lock_owner' = lock_owner
        /\ lock_waiters' = lock_waiters
        /\ api_req_id' = api_req_id]_vars

\* update() has just ended with AirzoneOffline
C7_Witness ==
    /\ last.op = "update"
    /\ ~Truthy(online)
    /\ result["sync"] = "AirzoneOffline"
    /\ pc["sync"] = "sleep"

\* the step taken is api_az_get_status of a getStatus response
StatusStep ==
    /\ ResponseStep
    /\ last'.msg.topic[2] = api_safe_str(API_AZ_GET_STATUS)

\* C8: a snapshot entry whose key is already stored is applied to the stored
\* device as an update: afterwards the stored device is the one before with
\* every field of the entry set.
C8_SnapshotUpdatesStored ==
    [][StatusStep =>
        \A i \in 1..Len(last'.msg.devices) :
            LET e == last'.msg.devices[i]
                key == LookupKey(e.system_id, e.device_id)
            IN  /\ (e.device_type = PyStr(API_AZ_ZONE) /\ key \in DOMAIN zones)
                     => zones'[key] = ZoneUpdate(zones[key], e)
                /\ (e.device_type = PyStr(API_AZ_SYSTEM)
                        /\ key \in DOMAIN systems)
                     => systems'[key] = SystemUpdate(systems[key], e)]_vars

\* the step taken is msg_events_status of an events/status message
EventStep ==
    /\ last'.op = "msg"
    /\ last'.msg.topic = <<AMT_EVENTS, AMT_STATUS>>

\* the field of a delta that Device.update / Zone.update copy to the
\* attribute f of a device; the identity, manufacturer and model have none
DeltaField(body, f) ==
    CASE f = "units" -> body.units
      [] f = "setpoint_max" -> body.parameters.range_max
      [] f = "setpoint_min" -> body.parameters.range_min
      [] f \in ParamNames -> body.parameters[f]
      [] OTHER -> PyNone

\* C9: a partial update changes only the fields present in the delta: the
\* fields absent from it keep their value in the addressed device, no key is
\* added or removed and every other stored device stays as it is.
C9_PartialFrame ==
    [][EventStep =>
        LET body == last'.msg.body
            key == LookupKey(body.system_id, body.device_id)
        IN  /\ DOMAIN zones' = DOMAIN zones
            /\ DOMAIN systems' = DOMAIN systems
            /\ \A k \in DOMAIN zones :
                  IF k = key /\ body.device_type = PyStr(API_AZ_ZONE)
                  THEN \A f \in DOMAIN zones[k] :
                          IsNone(DeltaField(body, f))
                              => zones'[k][f] = zones[k][f]
                  ELSE zones'[k] = zones[k]
            /\ \A k \in DOMAIN systems :
                  IF k = key /\ body.device_type = PyStr(API_AZ_SYSTEM)
                  THEN \A f \in DOMAIN systems[k] :
                          IsNone(DeltaField(body, f))
                              => systems'[k][f] = systems[k][f]
                  ELSE systems'[k] = systems[k]]_vars

\* a delta carrying only power was merged into a zone: the power is the
\* delta's, the setpoint and the connection flag are those of the snapshot
C9_Witness ==
    /\ last.op = "msg"
    /\ last.msg.body.parameters = [NoParams EXCEPT !.power = PyBool(TRUE)]
    /\ IsNone(last.msg.body.units)
    /\ "1:2" \in DOMAIN zones
    /\ zones["1:2"].power = PyBool(TRUE)
    /\ zones["1:2"].setpoint = PyFloat(215)
    /\ zones["1:2"].is_connected

\* C10: merging a partial delta is idempotent: applying the delta once more
\* to the device it was just merged into yields the same device.
C10_MergeIdempotent ==
    [][EventStep =>
        LET body == last'.msg.body
            key == LookupKey(body.system_id, body.device_id)
        IN  /\ (body.device_type = PyStr(API_AZ_ZONE) /\ key \in DOMAIN zones)
                => ZoneUpdate(zones'[key], body) = zones'[key]
            /\ (body.device_type = PyStr(API_AZ_SYSTEM)
                    /\ key \in DOMAIN systems)
                => SystemUpdate(systems'[key], body) = systems'[key]]_vars

\* a delta carrying mode_available was merged into a zone that had modes:
\* the list is the delta's
C10_Witness ==
    /\ last.op = "msg"
    /\ last.msg.body.parameters.mode_available = PyList(<<PyInt(1), PyInt(2)>>)
    /\ "1:2" \in DOMAIN zones
    /\ zones["1:2"].mode_available = <<1, 2>>
    /\ zones["1:2"].mode = <<"mode", 3>>

\* C11: no two distinct stored devices, systems and zones taken together,
\* have the same identity (system_id, device_id).
C11_UniqueKeys ==
    \A k \in DOMAIN systems : \A j \in DOMAIN zones :
        <<systems[k].system_id, systems[k].device_id>>
            # <<zones[j].system_id, zones[j].device_id>>

\* the entries of a device list whose type is system or zone
Recognized(devices) ==
    {i \in 1..Len(devices) :
        devices[i].device_type \in {PyStr(API_AZ_SYSTEM), PyStr(API_AZ_ZONE)}}

\* C12: a snapshot applied to an empty store, whose entries of recognized
\* type have distinct keys, creates exactly one stored device per such entry,
\* found under the entry's key with the entry's identity; entries of any
\* other type create nothing.
C12_SnapshotCreates ==
    [][(/\ StatusStep
        /\ DOMAIN systems = {}
        /\ DOMAIN zones = {}
        /\ \A i, j \in Recognized(last'.msg.devices) :
              i # j => LookupKey(last'.msg.devices[i].system_id,
                                 last'.msg.devices[i].device_id)
                       # LookupKey(last'.msg.devices[j].system_id,
                                   last'.msg.devices[j].device_id))
       => LET devices == last'.msg.devices
          IN  /\ Cardinality(DOMAIN systems') + Cardinality(DOMAIN zones')
                    = Cardinality(Recognized(devices))
              /\ \A i \in Recognized(devices) :
                    LET e == devices[i]
                        key == LookupKey(e.system_id, e.device_id)
                        store == IF e.device_type = PyStr(API_AZ_SYSTEM)
                                 THEN systems' ELSE zones'
                    IN  /\ key \in DOMAIN store
                        /\ store[key].system_id = StrOf(e.system_id)
                        /\ store[key].device_id = StrOf(e.device_id)]_vars

\* the first snapshot, one system entry and one zone entry under the system
\* id 1, has left exactly two stored devices
C12_Witness ==
    /\ last.op = "msg"
    /\ last.msg.topic[1] = AMT_RESPONSE
    /\ last.msg.devices = SnapshotA
    /\ cb_calls = 1
    /\ DOMAIN systems = {"1:1"}
    /\ DOMAIN zones = {"1:2"}

\* C13: each availability payload that is published for a device is "online"
\* exactly when, at the step that publishes it, the online flag is true and
\* the device's is_connected is true; otherwise it is "offline".
C13_Availability ==
    [][last'.op = "publish" =>
        \A r \in pub_tasks :
            /\ r \in DOMAIN avail_pub'
            /\ avail_pub'[r] \in {HAD_ONLINE, HAD_OFFLINE}
            /\ avail_pub'[r] = HAD_ONLINE
                  <=> (Truthy(online) /\ TaskDevice(r).is_connected)]_vars

\* with the gateway online, a connected system was published as online and
\* a zone that is not connected as offline
C13_Witness ==
    /\ last.op = "publish"
    /\ Truthy(online)
    /\ <<API_AZ_SYSTEM, "1:1">> \in DOMAIN avail_pub
    /\ <<API_AZ_ZONE, "1:1">> \in DOMAIN avail_pub
    /\ systems["1:1"].is_connected
    /\ ~zones["1:1"].is_connected
    /\ avail_pub[<<API_AZ_SYSTEM, "1:1">>] = HAD_ONLINE
    /\ avail_pub[<<API_AZ_ZONE, "1:1">>] = HAD_OFFLINE

\* the step taken is msg_process of a message with an undecodable payload
\* on an events/status, online or response topic
UndecodableStep ==
    /\ last'.op = "msg"
    /\ Decodes(last'.msg)
    /\ ~last'.msg.valid

\* C14: an undecodable payload on an events, online or response topic is
\* dropped: the store, the online flag and the pending correlation state stay
\* as they are, no task ends with an error and mqtt_task goes on with the
\* next message.
C14_DecodeErrorDropped ==
    [][UndecodableStep =>
        /\ UNCHANGED <<systems, zones, online, online_event, api_req_id,
                       api_resp, api_init, update_dt>>
        /\ fatal' = "none"
        /\ mqtt_pc' # "dead"]_vars

\* C15: when async_main has raised the error that ended one of its tasks,
\* the transport was disconnected by Interface.stop before; the error it
\* raises is the error of the task.
C15_StopBeforeExit ==
    exited # "none" => (~connected /\ exited = fatal)

\* the receive loop ended with the error of json.loads and async_main has
\* raised it
C15_Witness ==
    /\ mqtt_pc = "dead"
    /\ fatal = "JSONDecodeError"
    /\ exited = "JSONDecodeError"
    /\ ~connected

\* C16: messages reach msg_process in arrival order, each exactly once: a
\* push appends its message to rx_list, a turn of mqtt_task processes the
\* oldest message of rx_list and removes exactly that one, no other step
\* changes rx_list, and while mqtt_task has messages left nothing but its
\* next turn runs.
C16_ArrivalOrder ==
    [][/\ last'.op = "push" => rx_list' = Append(rx_list, last'.msg)
       /\ last'.op = "msg" =>
            /\ rx_list # << >>
            /\ last'.msg = rx_list[1]
            /\ rx_list' = SubSeq(rx_list, 2, Len(rx_list))
       /\ last'.op \notin {"push", "msg"} => rx_list' = rx_list
       /\ mqtt_pc = "run" => last'.op = "msg"]_vars

\* two messages were queued and the older one, an online message, has been
\* processed while the newer one, a response, is still in rx_list
C16_Witness ==
    /\ last.op = "msg"
    /\ last.msg.topic[1] = AMT_ONLINE
    /\ mqtt_pc = "run"
    /\ Len(rx_list) = 1
    /\ rx_list[1].topic[1] = AMT_RESPONSE
    /\ Truthy(online)

\* C17: when the getStatus response that completes a poll is processed,
\* update_dt becomes the timestamp of the response's headers if it has one,
\* and the current time only if it has none.
C17_ResponseTimestamp ==
    [][(/\ StatusStep
        /\ last'.msg.req_id = PyStr(api_req_id)
        /\ \E t \in Tasks : pc[t] = "wait_resp")
       => update_dt' = IF ~IsNone(last'.msg.ts)
                       THEN <<"dt", FloatOf(last'.msg.ts)>>
                       ELSE <<"dt", get_current_dt>>]_vars

\* C18: as long as no online message with a true value has been processed,
\* Interface.airzone_task is still in online_event.wait(): it has run no
\* cycle and no poll request has been published.
C18_WaitsForOnline ==
    ~online_seen =>
        /\ pc["sync"] = "wait_online"
        /\ result["sync"] = "none"
        /\ published = << >>

\* the first cycle has run, after an online message with a true value: it
\* has published the first poll request
C18_Witness ==
    /\ online_seen
    /\ last.op = "update"
    /\ pc["sync"] = "wait_resp"
    /\ Len(published) = 1

\* C19: a poll whose cmd_invoke returns, the response with the pending
\* correlation id having arrived in time, ends with AirzonePollError if
\* api_init is still false and without error if api_init is true; in both
\* cases the return raises no error that ends airzone_task, which goes on
\* to its sleep.
C19_PollFailure ==
    [][last'.op = "return" =>
        /\ result'[last'.task] =
                IF api_init THEN "ok" ELSE "AirzonePollError"
        /\ fatal' = fatal
        /\ pc'[last'.task] = "sleep"]_vars

\* the request was answered on a response topic that is not the getStatus
\* one: the poll has completed with the store not initialized
C19_Witness ==
    /\ last.op = "return"
    /\ ~api_init
    /\ result["sync"] = "AirzonePollError"
    /\ pc["sync"] = "sleep"

\* C20: when the poll times out, the pending correlation id is cleared: after
\* the timeout api_req_id names no request, so a late response with the id of
\* the timed-out request does not match.
C20_TimeoutClearsPending ==
    last.op = "timeout" =>
        /\ api_req_id = ""
        /\ api_req_id # published[Len(published)]

\* the errors that end a cycle of a caller of Airzone.update in failure;
\* RuntimeError is how a cycle that has timed out ends
FailedResults ==
    {"AirzoneOffline", "AirzoneTimeout", "AirzonePollError", "RuntimeError"}

\* C21: once a cycle has ended in failure, api_lock is not held on behalf of
\* that cycle: its task does not own the lock, and if the lock is held at
\* all, it is held by another task that is waiting for its own response.
C21_NoLockLeftOver ==
    \A t \in Tasks :
        (pc[t] \in {"sleep", "dead"} /\ result[t] \in FailedResults) =>
            /\ lock_owner # t
            /\ api_lock =>
                  \E u \in Tasks \ {t} :
                      lock_owner = u /\ pc[u] = "wait_resp"

\* the cycle of the task that held the lock has timed out while a second
\* caller was queued for the lock: the lock is free and handed to the caller
C21_Witness ==
    /\ last.op = "timeout"
    /\ last.task = "sync"
    /\ result["sync"] \in FailedResults
    /\ lock_owner = "none"
    /\ ~api_lock
    /\ pc["aux"] = "wait_lock"
    /\ woken["aux"]

\* C22: every release of api_lock is made by the task that holds it: no step
\* of a task ends with the RuntimeError that Lock.release raises for a lock
\* that is not held, and no step of a task takes the lock away from another
\* task that owns it.
C22_ReleasePaired ==
    [][\A t \in Tasks :
          (last'.task = t /\ last'.op \in {"return", "timeout"}) =>
              /\ result'[t] # "RuntimeError"
              /\ lock_owner \notin {"none", t} =>
                    (lock_owner' = lock_owner /\ api_lock')]_vars

\* the identity of a stored device
Identity(dev) == <<dev.system_id, dev.device_id>>

\* C23: the stored keys only grow: every step keeps the stored keys, a step
\* that adds one is the processing of a getStatus response, that step
\* leaves every device stored before as it is, and every other step leaves
\* each stored device in place, with its identity.
C23_KeysOnlyGrow ==
    [][/\ DOMAIN systems \subseteq DOMAIN systems'
       /\ DOMAIN zones \subseteq DOMAIN zones'
       /\ (DOMAIN systems' # DOMAIN systems \/ DOMAIN zones' # DOMAIN zones)
            => StatusStep
       /\ StatusStep =>
            /\ \A k \in DOMAIN systems : systems'[k] = systems[k]
            /\ \A k \in DOMAIN zones : zones'[k] = zones[k]
       /\ \A k \in DOMAIN systems :
            Identity(systems'[k]) = Identity(systems[k])
       /\ \A k \in DOMAIN zones :
            Identity(zones'[k]) = Identity(zones[k])]_vars

\* a second snapshot that omits the system 1:1 and brings other values for
\* the zone 1:2 was processed: both are stored as before, and the zone 1:1
\* of the second snapshot was added
C23_Witness ==
    /\ last.op = "msg"
    /\ last.msg.topic[1] = AMT_RESPONSE
    /\ last.msg.devices = SnapshotB
    /\ "1:1" \in DOMAIN systems
    /\ DOMAIN zones = {"1:1", "1:2"}
    /\ zones["1:2"].setpoint = PyFloat(215)

\* the body of an events/status message addresses a stored device: a stored
\* system for the type system, a stored zone for the type zone
Addressed(body) ==
    LET key == GetId(StrOf(body.system_id), StrOf(body.device_id))
    IN  \/ body.device_type = PyStr(API_AZ_SYSTEM) /\ key \in DOMAIN systems
        \/ body.device_type = PyStr(API_AZ_ZONE) /\ key \in DOMAIN zones

\* C24: an events/status message whose (system_id, device_id) is not in the
\* store is a no-op: no device is created or changed, update_dt stays and
\* neither the callback nor a publish task is started.
C24_UnknownDeviceNoop ==
    [][(EventStep /\ last'.msg.valid /\ ~Addressed(last'.msg.body)) =>
        /\ UNCHANGED <<systems, zones, update_dt, cb_calls, pub_tasks,
                       api_init, online, api_req_id, api_resp>>
        /\ fatal' = fatal]_vars

\* an event for the zone 2:2 was processed while the store holds the zone
\* 1:2 with the same device id: the store holds no zone 2:2 and the only
\* callback so far is that of the snapshot
C24_Witness ==
    /\ last.op = "msg"
    /\ last.msg.topic = <<AMT_EVENTS, AMT_STATUS>>
    /\ last.msg.body = UnknownZoneBody
    /\ DOMAIN zones = {"1:2"}
    /\ zones["1:2"].power = PyBool(FALSE)
    /\ cb_calls = 1

\* C25: api_init changes only from false to true and only when a getStatus
\* response is processed; api_init_event is set at that step and at no
\* other, and neither of them is ever reset.
C25_InitOnce ==
    [][/\ api_init => api_init'
       /\ api_init_event => api_init_event'
       /\ api_init' # api_init => (StatusStep /\ api_init_event')
       /\ api_init_event' # api_init_event => api_init' # api_init
       /\ api_init' <=> api_init_event']_vars

\* a second getStatus response was processed with the store initialized
C25_Witness ==
    /\ last.op = "msg"
    /\ last.msg.topic = <<AMT_RESPONSE, api_safe_str(API_AZ_GET_STATUS)>>
    /\ cb_calls = 2
    /\ api_init
    /\ api_init_event
    /\ fatal = "none"

\* the step taken is msg_process of a message on the invoke topic or with
\* an unrecognized first topic segment
LoggedStep ==
    /\ last'.op = "msg"
    /\ last'.msg.topic[1] \notin {AMT_EVENTS, AMT_ONLINE, AMT_RESPONSE}

\* C26: a message on the invoke topic or with an unrecognized first topic
\* segment changes nothing: the store, the online flag and its event, the
\* pending correlation id, the response event, update_dt and api_init stay,
\* no callback runs, no task is woken or started and mqtt_task does not end.
C26_LoggedOnly ==
    [][LoggedStep =>
        /\ UNCHANGED <<systems, zones, online, online_event, api_req_id,
                       api_resp, update_dt, api_init, api_init_event,
                       api_raw_data, cb_calls, pub_tasks, avail_pub,
                       published, woken, pc>>
        /\ fatal' = fatal
        /\ mqtt_pc' # "dead"]_vars

\* a message on the invoke topic with a payload that is no JSON document was
\* processed with the store initialized, and mqtt_task waits for the next
C26_Witness ==
    /\ last.op = "msg"
    /\ last.msg.topic = <<AMT_INVOKE>>
    /\ ~last.msg.valid
    /\ api_init
    /\ fatal = "none"
    /\ mqtt_pc = "wait"

\* the message processed by the step is merged into the store: an
\* events/status message for a stored device, or a getStatus response
MergeStep ==
    /\ last'.op = "msg"
    /\ last'.msg.valid
    /\ \/ EventStep /\ Addressed(last'.msg.body)
       \/ StatusStep

\* C27: the callback is called exactly once by the processing of each
\* message that is merged, after the merge: the publish tasks it starts are
\* those of the devices stored after the step.  Processing any other
\* message, and any step that processes no message, calls no callback.
C27_CallbackOncePerMerge ==
    [][IF MergeStep
       THEN /\ cb_calls' = cb_calls + 1
            /\ pub_tasks' = pub_tasks \cup
                    ({<<API_AZ_SYSTEM, k>> : k \in DOMAIN systems'}
                     \cup {<<API_AZ_ZONE, k>> : k \in DOMAIN zones'})
       ELSE /\ cb_calls' = cb_calls
            /\ pub_tasks' \subseteq pub_tasks]_vars

\* the snapshot and then an event for the stored zone 1:2 were merged: the
\* callback was called twice and the task of the zone is to publish it
C27_Witness ==
    /\ last.op = "msg"
    /\ last.msg.topic = <<AMT_EVENTS, AMT_STATUS>>
    /\ last.msg.body = ZonePowerBody
    /\ "1:2" \in DOMAIN zones
    /\ zones["1:2"].power = PyBool(TRUE)
    /\ cb_calls = 2
    /\ <<API_AZ_ZONE, "1:2">> \in pub_tasks

\* C28: the identity of a stored device never changes, and after every step
\* each device is stored under the key system_id:device_id of its own
\* identity.
C28_IdentityImmutable ==
    [][/\ \A k \in DOMAIN systems' :
            /\ systems'[k].system_id \o ":" \o systems'[k].device_id = k
            /\ k \in DOMAIN systems =>
                  Identity(systems'[k]) = Identity(systems[k])
       /\ \A k \in DOMAIN zones' :
            /\ zones'[k].system_id \o ":" \o zones'[k].device_id = k
            /\ k \in DOMAIN zones =>
                  Identity(zones'[k]) = Identity(zones[k])]_vars

\* an event that names the system 1:1 by numbers was merged into the system
\* stored under "1:1": its flag is the event's, its identity the stored one
C28_Witness ==
    /\ last.op = "msg"
    /\ last.msg.topic = <<AMT_EVENTS, AMT_STATUS>>
    /\ last.msg.body = SystemBody
    /\ "1:1" \in DOMAIN systems
    /\ ~systems["1:1"].is_connected
    /\ Identity(systems["1:1"]) = <<"1", "1">>

\* the step taken is msg_online of a decodable message on the online topic
OnlineStep ==
    /\ last'.op = "msg"
    /\ last'.msg.topic[1] = AMT_ONLINE
    /\ last'.msg.valid

\* C29: processing an online message leaves the online flag equal to the
\* message's online value, false if the message has none, and online_event
\* set exactly if the flag is true; no other step changes the flag or the
\* event.
C29_OnlineFollowsMessage ==
    [][IF OnlineStep
       THEN /\ online' = (IF last'.msg.online = Absent THEN PyBool(FALSE)
                          ELSE last'.msg.online)
            /\ online_event' <=> BoolOf(online')
       ELSE UNCHANGED <<online, online_event>>]_vars

\* after an online message with a true value, one without the online field
\* was processed: the flag is false and the event is cleared
C29_Witness ==
    /\ last.op = "msg"
    /\ last.msg.topic = <<AMT_ONLINE>>
    /\ last.msg.online = Absent
    /\ online_seen
    /\ online = PyBool(FALSE)
    /\ ~online_event

\* the response to the pending request of t was processed while t waits in
\* api_resp.wait() and the deadline of its timeout has not come
ResponseInTime(t) ==
    /\ pc[t] = "wait_resp"
    /\ lock_owner = t
    /\ api_resp
    /\ ~Due(t)

\* cmd_invoke of t has returned and the lock is released
InvokeReturned(t) ==
    /\ pc[t] = "sleep"
    /\ result[t] \in {"ok", "AirzonePollError"}
    /\ lock_owner # t
    /\ ~api_lock

\* C30: no lost wake-up.  Once a response with the pending correlation id
\* is processed after cmd_invoke published its request and before the
\* timeout, that cmd_invoke eventually returns and releases api_lock,
\* whatever the interleaving of the sync task and the receive task.
C30_NoLostWakeup ==
    \A t \in Tasks : ResponseInTime(t) ~> InvokeReturned(t)

\* cmd_invoke returned after its response although mqtt_task ended on an
\* undecodable message before the sync task ran again
C30_Witness ==
    /\ last.op = "return"
    /\ last.task = "sync"
    /\ InvokeReturned("sync")
    /\ fatal = "JSONDecodeError"
    /\ exited = "none"

\* the step processes a decodable response that carries the pending
\* correlation id
OwnResponseStep ==
    /\ last'.op = "msg"
    /\ last'.msg.topic[1] = AMT_RESPONSE
    /\ last'.msg.valid
    /\ last'.msg.req_id = PyStr(api_req_id)

\* C31: a cmd_invoke returns normally only if a response with the call's own
\* correlation id was processed after the call published its request.  The
\* call publishes an id no earlier call used and starts its wait with the
\* response event clear, whatever earlier, duplicate or late responses left
\* behind; during the wait only a response carrying that id sets the event
\* and wakes the call; and the call returns only once woken that way.
C31_OwnResponseOnly ==
    [][\A t \in Tasks :
        /\ (pc[t] # "wait_resp" /\ pc'[t] = "wait_resp") =>
                /\ ~api_resp'
                /\ ~woken'[t]
                /\ published' = Append(published, api_req_id')
                /\ \A i \in 1..Len(published) : published[i] # api_req_id'
        /\ (/\ pc[t] = "wait_resp"
            /\ pc'[t] = "wait_resp"
            /\ \/ ~api_resp /\ api_resp'
               \/ ~woken[t] /\ woken'[t]) =>
                /\ OwnResponseStep
                /\ api_req_id = published[Len(published)]
                /\ api_resp' /\ woken'[t]
        /\ (/\ last'.op = "return"
            /\ last'.task = t
            /\ result'[t] \in {"ok", "AirzonePollError"}) =>
                /\ pc[t] = "wait_resp"
                /\ api_resp /\ woken[t]]_vars

\* the second cmd_invoke has returned: the response event was still set by
\* the response to the first request when the second call began
C31_Witness ==
    /\ last.op = "return"
    /\ last.task = "sync"
    /\ Len(published) = 2
    /\ published[1] # published[2]
    /\ result["sync"] \in {"ok", "AirzonePollError"}
    /\ api_req_id = published[2]
====
